---- MODULE Spec2Model ----
(***************************************************************************)
(* Biofeedback lab: the integral controller (code/controller.py), the      *)
(* session hook that threads its state (polar_run.py, apply_biofeedback)   *)
(* and the RR-interval window / RMSSD calculator (polar_hrv.py).           *)
(*                                                                         *)
(* Numbers.  The program computes in floating point; the model computes    *)
(* exactly, in fixed point.  An audio parameter v is the integer           *)
(* v * PScale, with PScale = 100 * 50^RelaxDepth: every controller step on *)
(* an integer z-score is a multiple of 1/100, and every relaxation divides *)
(* the distance to neutral by 50, so RelaxDepth successive relaxations of  *)
(* a value on the 1/100 grid are exact.  A relaxation whose result is not  *)
(* on the grid is not taken (guard RelaxExact).                            *)
(*                                                                         *)
(* Specifications.  Spec: the session hook alone.  SpecHold: the           *)
(* controller under held inputs.  SpecRmssd: compute_rmssd alone.          *)
(* SpecStream: the notification handler, its consumer and the clock.       *)
(* SpecFrame: a stream run followed by one recorded delivery of any frame. *)
(* SpecLife: the generator rmssd_z_stream from scan to stop_notify.        *)
(* SpecSession: run_session over the live and the simulated stream, where  *)
(* a z-score yielded by either stream is any value of SessionZ.            *)
(* SpecSessionFair: SpecSession with the session task kept scheduled.      *)
(* SpecSummary: compute_pre_post alone, on any short list of samples.      *)
(***************************************************************************)
EXTENDS Integers, Sequences, FiniteSets, TLC

VARIABLES
    current_params,   \* polar_run.current_params: the AudioParams carried across ticks
    prev_params,      \* the AudioParams passed to the last update_audio_params call
    start_params,     \* the AudioParams the run started from
    last_call,        \* the (hrv_z, faa_z, is_baseline) of the last call
    ticks,            \* number of calls made so far (controller calls, compute_rmssd calls)
    \* polar_hrv.rmssd_z_stream
    rr_ms_window,     \* the most recent RR intervals, in 1/MsScale ms
    baseline_rmssds,  \* RMSSD samples collected during the baseline
    baseline_done,
    base_mean,
    base_std,
    queue,            \* asyncio.Queue() (no maxsize): z-scores put and not yet taken
    now,              \* time.time(), in seconds since the stream was created
    received,         \* every RR interval the handler accepted, in arrival order
    rmssd_out,        \* what the last compute_rmssd call returned
    stream_pc,        \* where the generator rmssd_z_stream is
    stream_starts,    \* number of rmssd_z_stream() generators started
    notify_started,   \* start_notify has returned
    stop_notify_calls,\* number of client.stop_notify calls
    delivered,        \* the frame a single delivery was observed for, and the state before
    \* polar_run.run_session
    session_pc,       \* where run_session is
    audio_engine,     \* polar_run.audio_engine: the AudioEngine, or absent (None)
    samples,          \* the per-sample records appended so far
    t0,               \* run_session's time origin, None until the first z-score
    sim_started,      \* simulated_rmssd_z_stream() has been started
    z_source,         \* the stream the last z-score was pulled from
    exit_cause,       \* what ended the loop of run_session
    pulls,            \* number of z-scores the loops of run_session were given
    tick_flags,       \* the (is_baseline, is_post_window) passed on each tick
    summary,          \* what compute_pre_post gave
    log_rows,         \* the rows of the per-sample log file
    summary_rows      \* the rows appended to the summary file

ctlVars == <<current_params, prev_params, start_params, last_call>>
strVars == <<rr_ms_window, baseline_rmssds, baseline_done, base_mean, base_std,
             queue, now, received, rmssd_out>>
lifeVars == <<stream_pc, stream_starts, notify_started, stop_notify_calls>>
obsVars == <<exit_cause, pulls, tick_flags>>
outVars == <<summary, log_rows, summary_rows>>
sesVars == <<session_pc, audio_engine, samples, t0, sim_started, z_source,
             obsVars, outVars>>
vars == <<ctlVars, ticks, strVars, lifeVars, delivered, sesVars>>

\* ---------------------------------------------------------------- bounds
RelaxDepth == 2       \* exact relaxations of a 1/100-grid value
MaxTicks   == 4       \* ticks of a session run (Spec)
MaxHold    == 16      \* ticks of a held-input run (SpecHold)
MaxWindow  == 4       \* longest window handed to compute_rmssd (SpecRmssd)
MaxReceived == 7      \* RR intervals accepted in a stream run (SpecStream)
MaxQueue   == 2       \* z-scores waiting in the queue of a stream run

\* ---------------------------------------------------------------- numbers
PScale    == 100 * 50^RelaxDepth          \* model units per 1.0 of a parameter
GainScale == 1000                         \* gains and literals are given in 1/1000
Milli(n)  == n * (PScale \div GainScale)  \* the parameter value n/1000

Max(a, b) == IF a >= b THEN a ELSE b
Min(a, b) == IF a <= b THEN a ELSE b
Abs(a)    == IF a >= 0 THEN a ELSE -a

\* Optional[float]
None    == [present |-> FALSE, val |-> 0]
Some(v) == [present |-> TRUE, val |-> v]

\* ---------------------------------------------------------------- controller.py
AudioParams(t, p, v) == [tempo |-> t, pitch |-> p, volume |-> v]

NEUTRAL_TEMPO  == Milli(1000)
NEUTRAL_PITCH  == Milli(-2000)
NEUTRAL_VOLUME == Milli(60000)
DefaultParams  == AudioParams(NEUTRAL_TEMPO, NEUTRAL_PITCH, NEUTRAL_VOLUME)

HRV_SETPOINT == 0

TEMPO_MIN  == Milli(850)
TEMPO_MAX  == Milli(1150)
PITCH_MIN  == Milli(-6000)
PITCH_MAX  == Milli(0)
VOLUME_MIN == Milli(52000)
VOLUME_MAX == Milli(68000)

\* gains in 1/1000
HRV_KI_TEMPO  == 10
HRV_KI_PITCH  == -30
HRV_KI_VOLUME == -400
FAA_KP_PITCH  == 150
FAA_KP_VOLUME == 1000
DT == 1

\* relax_alpha = 0.02: the step is 1/RelaxDiv of the distance to neutral
RelaxDiv == 50

\* x + relax_alpha * (neutral - x)
RelaxWrongSign(x, neutral) == x - (neutral - x) \div RelaxDiv
Relax(x, neutral) == x + (neutral - x) \div RelaxDiv

\* max(lo, min(hi, x))
ClampNone(lo, hi, x) == x
ClampUpperOnly(lo, hi, x) == Min(hi, x)
Clamp(lo, hi, x) == Max(lo, Min(hi, x))

\* params.x + KI * hrv_error * DT, in model units
IntegrateTwice(x, ki, hrv_error) == x + 2 * ki * hrv_error * DT * (PScale \div GainScale)
Integrate(x, ki, hrv_error) == x + ki * hrv_error * DT * (PScale \div GainScale)

\* the FAA proportional term, added to pitch and volume when faa_z is present
FaaTerm(kp, faa_z) == IF faa_z.present THEN kp * faa_z.val * (PScale \div GainScale) ELSE 0

\* the tempo of the control branch, before clamping
TempoWithFaa(params, hrv_error, faa_z) ==
    Integrate(params.tempo, HRV_KI_TEMPO, hrv_error) + FaaTerm(FAA_KP_PITCH, faa_z)
TempoRaw(params, hrv_error, faa_z) == Integrate(params.tempo, HRV_KI_TEMPO, hrv_error)

update_audio_params(params, hrv_z, faa_z, is_baseline, is_post_window) ==
    IF is_baseline \/ ~hrv_z.present
    THEN AudioParams(Relax(params.tempo, NEUTRAL_TEMPO),
                     Relax(params.pitch, NEUTRAL_PITCH),
                     Relax(params.volume, NEUTRAL_VOLUME))
    ELSE LET hrv_error == HRV_SETPOINT - hrv_z.val
             tempo  == TempoRaw(params, hrv_error, faa_z)
             pitch  == Integrate(params.pitch, HRV_KI_PITCH, hrv_error)
                          + FaaTerm(FAA_KP_PITCH, faa_z)
             volume == Integrate(params.volume, HRV_KI_VOLUME, hrv_error)
                          + FaaTerm(FAA_KP_VOLUME, faa_z)
         IN  AudioParams(Clamp(TEMPO_MIN, TEMPO_MAX, tempo),
                         Clamp(PITCH_MIN, PITCH_MAX, pitch),
                         Clamp(VOLUME_MIN, VOLUME_MAX, volume))

\* The relaxation of params is exact in model units.
RelaxExact(params) ==
    /\ (NEUTRAL_TEMPO - params.tempo) % RelaxDiv = 0
    /\ (NEUTRAL_PITCH - params.pitch) % RelaxDiv = 0
    /\ (NEUTRAL_VOLUME - params.volume) % RelaxDiv = 0

\* A call is modelled when it integrates, or when its relaxation is exact.
CallExact(params, hrv_z, is_baseline) ==
    (is_baseline \/ ~hrv_z.present) => RelaxExact(params)

\* ---------------------------------------------------------------- inputs
ZValues   == {-150, -1, 0, 1, 150}
FaaValues == {-1, 1}
OptZ      == {None} \cup {Some(z) : z \in ZValues}
OptFaa    == {None} \cup {Some(f) : f \in FaaValues}

\* previous parameters a caller may pass: on the boundaries, inside, and outside
\* the ranges (music_harness.py starts from tempo 80.0, pitch 0.0, volume 0.6)
PrevTempos  == {Milli(850), Milli(900), Milli(1000), Milli(1150), Milli(80000)}
PrevPitches == {Milli(-6000), Milli(-2000), Milli(-1000), Milli(0)}
PrevVolumes == {Milli(600), Milli(52000), Milli(60000), Milli(61000), Milli(68000)}
PrevParams  == {AudioParams(t, p, v) : t \in PrevTempos, p \in PrevPitches, v \in PrevVolumes}

NoCall == [hrv_z |-> None, faa_z |-> None, is_baseline |-> FALSE]
Call(z, f, b) == [hrv_z |-> z, faa_z |-> f, is_baseline |-> b]

\* ---------------------------------------------------------------- polar_hrv.py
\* RR intervals in milliseconds are integers in 1/MsScale ms (raw 1/1024 s values
\* convert exactly); RMSSD, the baseline mean and std are in 1/SecScale s; z-scores
\* put on the queue are in 1/1000.
MsScale  == 128
SecScale == 1000 * MsScale
SqrtTop  == 46340     \* the largest integer whose square is a 32-bit integer

\* math.sqrt, rounded down to the grid: the r in lo..hi-1 with r*r <= x < (r+1)*(r+1)
RECURSIVE SqrtBetween(_, _, _)
SqrtBetween(x, lo, hi) ==
    IF hi - lo <= 1 THEN lo
    ELSE LET mid == (lo + hi) \div 2
         IN  IF mid * mid <= x THEN SqrtBetween(x, mid, hi) ELSE SqrtBetween(x, lo, mid)
Sqrt(x) == SqrtBetween(x, 0, SqrtTop)

RECURSIVE SumSeq(_)
SumSeq(s) == IF s = <<>> THEN 0 ELSE Head(s) + SumSeq(Tail(s))

\* diffs[i-1] = rr_ms_window[i] - rr_ms_window[i-1], i in 1..len-1 (0-based)
DiffsFromFirst(w) == [i \in 1..(Len(w) - 1) |-> w[i + 1] - w[1]]
Diffs(w) == [i \in 1..(Len(w) - 1) |-> w[i + 1] - w[i]]

Squares(s) == [i \in 1..Len(s) |-> s[i] * s[i]]

\* rmssd_ms / 1000.0: from 1/MsScale ms to 1/SecScale s
MsToSeconds(x_ms) == (x_ms * (SecScale \div MsScale)) \div 1000

compute_rmssd(w) ==
    IF Len(w) < 3 THEN None
    ELSE LET diffs == Diffs(w)
         IN  IF Len(diffs) = 0 THEN None
             ELSE LET mean_sq  == SumSeq(Squares(diffs)) \div Len(diffs)
                      rmssd_ms == Sqrt(mean_sq)
                  IN  Some(MsToSeconds(rmssd_ms))

\* --- the notification handler of rmssd_z_stream
rr_window_size      == 3     \* default 20
baseline_duration_s == 2     \* default 60.0
baseline_start      == 0     \* time.time() when the stream is created

Byte(data, i) == data[i + 1]          \* data[i], 0-based
RrPresent(flags)  == (flags \div 16) % 2 = 1     \* flags & 0x10
HrIsUint16(flags) == flags % 2 = 1               \* flags & 0x01

\* (rr_raw / 1024.0) * 1000.0, in 1/MsScale ms
RawAsMs(rr_raw) == rr_raw * MsScale
RawToMs(rr_raw) == rr_raw * ((1000 * MsScale) \div 1024)

\* while idx + 1 < len(data): read a little-endian uint16 at idx, idx += 2
RECURSIVE ParseRR(_, _)
ParseRR(data, idx) ==
    IF idx + 1 < Len(data)
    THEN <<RawToMs(Byte(data, idx) + 256 * Byte(data, idx + 1))>> \o ParseRR(data, idx + 2)
    ELSE <<>>

\* the rr_values_ms of a frame; <<>> for a frame the handler returns on
FrameRRWithoutFlagTest(data) ==
    IF Len(data) < 3 THEN <<>>
    ELSE ParseRR(data, IF HrIsUint16(Byte(data, 0)) THEN 3 ELSE 2)
FrameRR(data) ==
    IF Len(data) < 3 THEN <<>>
    ELSE IF ~RrPresent(Byte(data, 0)) THEN <<>>
    ELSE ParseRR(data, IF HrIsUint16(Byte(data, 0)) THEN 3 ELSE 2)

\* s[-n:]
LastN(s, n) == IF Len(s) <= n THEN s ELSE SubSeq(s, Len(s) - n + 1, Len(s))

\* rr_ms_window.extend(rr_values_ms); keep the last rr_window_size
ExtendKeepFirst(w, rr_values_ms) ==
    IF Len(w \o rr_values_ms) > rr_window_size
    THEN SubSeq(w \o rr_values_ms, 1, rr_window_size) ELSE w \o rr_values_ms
ExtendWindow(w, rr_values_ms) ==
    IF Len(w \o rr_values_ms) > rr_window_size
    THEN LastN(w \o rr_values_ms, rr_window_size) ELSE w \o rr_values_ms

\* statistics.mean, rounded down to the grid
Mean(xs) == SumSeq(xs) \div Len(xs)

\* statistics.pstdev, rounded down to the grid; the variance is computed on the
\* deviations from the first sample, which leaves it unchanged
PVarianceTimesN2(xs) ==
    LET ys == [i \in 1..Len(xs) |-> xs[i] - xs[1]]
    IN  Len(xs) * SumSeq(Squares(ys)) - SumSeq(ys) * SumSeq(ys)
PStdev(xs) == Sqrt(PVarianceTimesN2(xs) \div (Len(xs) * Len(xs)))

\* the 0.01 of "pstdev(...) or 0.01"
StdFloor == SecScale \div 100

\* (rmssd - base_mean) / base_std, in 1/1000, rounded down
ZScoreOfRaw(rmssd, mean, std) == (rmssd * 1000) \div std
ZScore(rmssd, mean, std) == ((rmssd - mean) * 1000) \div std

StreamCreated ==
    /\ rr_ms_window = <<>>
    /\ baseline_rmssds = <<>>
    /\ baseline_done = FALSE
    /\ base_mean = 0
    /\ base_std = SecScale
    /\ queue = <<>>
    /\ now = 0
    /\ received = <<>>
    /\ rmssd_out = None

\* elapsed >= baseline_duration_s and len(baseline_rmssds) >= 3
ClosesOnTimeAlone(elapsed, rmssds) == elapsed >= baseline_duration_s
BaselineCloses(elapsed, rmssds) == elapsed >= baseline_duration_s /\ Len(rmssds) >= 3

\* statistics.pstdev(baseline_rmssds) or 0.01
PStdevUnfloored(rmssds) == PStdev(rmssds)
BaselineStd(rmssds) == IF PStdev(rmssds) = 0 THEN StdFloor ELSE PStdev(rmssds)

\* "if not baseline_done:" the sample goes to the baseline accumulator
CollectsAlways(done) == TRUE
Collects(done) == ~done

\* the baseline branch returns; a z-score is put only when the baseline was closed
\* before this frame
EmitsAlways(done) == TRUE
Emits(done) == done

\* asyncio.Queue(): maxsize 0, the queue is never full
queue_maxsize == 0

\* try: queue.put_nowait(z) / except asyncio.QueueFull: pass
put_nowait(q, z) ==
    IF queue_maxsize > 0 /\ Len(q) >= queue_maxsize THEN q ELSE Append(q, z)

\* what the handler does to the state of the stream
HandleFrame(data) ==
    LET rr_values_ms == FrameRR(data)
        window == ExtendWindow(rr_ms_window, rr_values_ms)
        rmssd  == compute_rmssd(window)
        elapsed == now - baseline_start
    IN
    /\ Len(received) + Len(rr_values_ms) <= MaxReceived
    /\ IF rr_values_ms = <<>>
       THEN UNCHANGED strVars
       ELSE /\ rr_ms_window' = window
            /\ received' = received \o rr_values_ms
            /\ rmssd_out' = rmssd
            /\ UNCHANGED now
            /\ IF ~rmssd.present
               THEN UNCHANGED <<baseline_rmssds, baseline_done, base_mean, base_std, queue>>
               ELSE /\ IF Collects(baseline_done)
                       THEN LET rmssds == Append(baseline_rmssds, rmssd.val)
                                closes  == BaselineCloses(elapsed, rmssds)
                            IN  /\ baseline_rmssds' = rmssds
                                /\ baseline_done' = closes
                                /\ base_mean' = IF closes THEN Mean(rmssds) ELSE base_mean
                                /\ base_std' = IF closes THEN BaselineStd(rmssds)
                                                         ELSE base_std
                       ELSE UNCHANGED <<baseline_rmssds, baseline_done, base_mean, base_std>>
                    /\ IF Emits(baseline_done)
                       THEN /\ Len(queue) < MaxQueue
                            /\ queue' = put_nowait(queue,
                                                   ZScore(rmssd.val, base_mean, base_std))
                       ELSE UNCHANGED queue

NotificationsOn == notify_started /\ stop_notify_calls = 0

hrm_notification_handler(data) ==
    /\ NotificationsOn
    /\ HandleFrame(data)
    /\ UNCHANGED <<ctlVars, ticks, lifeVars, delivered, sesVars>>

\* rmssd_z = await queue.get(); yield rmssd_z
QueueGetReturns ==
    /\ stream_pc = "waiting"
    /\ queue # <<>>
    /\ queue' = Tail(queue)
    /\ UNCHANGED <<rr_ms_window, baseline_rmssds, baseline_done, base_mean, base_std,
                   now, received, rmssd_out>>

\* the consumer takes the value and asks for the next one
QueueGet ==
    /\ QueueGetReturns
    /\ UNCHANGED <<ctlVars, ticks, lifeVars, delivered, sesVars>>

\* time passes, up to one second past the baseline duration
MaxTime == baseline_duration_s + 1
ClockTick ==
    /\ now < MaxTime
    /\ now' = now + 1
    /\ UNCHANGED <<rr_ms_window, baseline_rmssds, baseline_done, base_mean, base_std,
                   queue, received, rmssd_out>>
    /\ UNCHANGED <<ctlVars, ticks, lifeVars, delivered, sesVars>>

\* raw RR values a strap sends (1/1024 s), and the frames built from them
RawRR == {800, 860}
RawSeqs == UNION {[1..n -> RawRR] : n \in 0..(rr_window_size + 1)}
RECURSIVE RawBytes(_)
RawBytes(rs) ==
    IF rs = <<>> THEN <<>> ELSE <<Head(rs) % 256, Head(rs) \div 256>> \o RawBytes(Tail(rs))

\* flags 0x10: RR intervals after a 1-byte heart rate; 0x11: after a 2-byte one
RRFlags == {16, 17}
HeartRate(flags) == IF HrIsUint16(flags) THEN <<60, 0>> ELSE <<60>>
\* frames that are too short, frames without the RR flag, frames with a 1-byte heart
\* rate carrying any number of intervals, frames with a 2-byte heart rate, and frames
\* with a trailing odd byte
ShortRawSeqs == UNION {[1..n -> RawRR] : n \in 0..2}
Frames ==
    {<<16>>, <<16, 60>>, <<16, 60, 7>>, <<0, 60, 32, 3>>, <<1, 60, 0, 32, 3>>}
    \cup {<<16>> \o HeartRate(16) \o RawBytes(rs) : rs \in RawSeqs}
    \cup {<<17>> \o HeartRate(17) \o RawBytes(rs) : rs \in ShortRawSeqs}
    \cup {<<f>> \o HeartRate(f) \o RawBytes(<<r>>) \o <<7>> : f \in RRFlags, r \in RawRR}

\* --- the generator and run_session before they have run
NoFrame == [done |-> FALSE, data |-> <<>>, before |-> <<>>, received_before |-> <<>>]

\* audio_engine = None, or the AudioEngine with the parameters last forwarded to it
NoEngine == [present |-> FALSE, finished |-> FALSE, stops |-> 0, params |-> DefaultParams]
Engine(params) == [present |-> TRUE, finished |-> FALSE, stops |-> 0, params |-> params]

\* rmssd_z_stream() not yet iterated
StreamNotStarted ==
    /\ stream_pc = "idle"
    /\ stream_starts = 0
    /\ notify_started = FALSE
    /\ stop_notify_calls = 0
    /\ delivered = NoFrame

\* rmssd_z_stream() connected, start_notify done, suspended in "await queue.get()"
StreamNotifying ==
    /\ stream_pc = "waiting"
    /\ stream_starts = 1
    /\ notify_started = TRUE
    /\ stop_notify_calls = 0
    /\ delivered = NoFrame

\* run_session after the audio engine was initialised (or failed to), before the loop
SessionCreated(engine) ==
    /\ session_pc = "live"
    /\ audio_engine = engine
    /\ samples = <<>>
    /\ t0 = None
    /\ sim_started = FALSE
    /\ z_source = "none"
    /\ exit_cause = "none"
    /\ pulls = 0
    /\ tick_flags = <<>>
    /\ summary = [outcome |-> "none", by |-> "none", pre_mean |-> 0, post_mean |-> 0,
                  delta |-> 0, t_last |-> 0, n_pre |-> 0, n_post |-> 0]
    /\ log_rows = <<>>
    /\ summary_rows = <<>>

InitStream ==
    /\ current_params = DefaultParams
    /\ prev_params = DefaultParams
    /\ start_params = DefaultParams
    /\ last_call = [hrv_z |-> None, faa_z |-> None, is_baseline |-> FALSE]
    /\ ticks = 0
    /\ StreamCreated
    /\ StreamNotifying
    /\ SessionCreated(NoEngine)

NextStream ==
    \/ \E data \in Frames : hrm_notification_handler(data)
    \/ QueueGet
    \/ ClockTick

SpecStream == InitStream /\ [][NextStream]_vars

\* --- one delivery observed: the stream runs on a few frames, then the handler is
\* called once more with any frame, the frame and the state before it being recorded
StreamState ==
    <<rr_ms_window, baseline_rmssds, baseline_done, base_mean, base_std, queue>>

BuildFrames ==
    {<<16>> \o HeartRate(16) \o RawBytes(rs) : rs \in {<<800, 860, 800>>, <<860>>, <<800>>}}

ObservedDelivery(data) ==
    /\ NotificationsOn
    /\ HandleFrame(data)
    /\ delivered' = [done |-> TRUE, data |-> data, before |-> StreamState,
                     received_before |-> received]
    /\ UNCHANGED <<ctlVars, ticks, lifeVars, sesVars>>

NextFrame ==
    /\ ~delivered.done
    /\ \/ \E data \in BuildFrames : hrm_notification_handler(data)
       \/ ClockTick
       \/ \E data \in Frames : ObservedDelivery(data)

SpecFrame == InitStream /\ [][NextFrame]_vars

\* --- the generator rmssd_z_stream from its first __anext__ to its end
\* stream_pc: "idle", "scanning" (find_polar_device), "connecting" (BleakClient
\* __aenter__), "starting" (start_notify), "waiting" (await queue.get()), "abandoned"
\* (suspended at the yield, the consumer gone), "finally_cancelled" / "finally_closed"
\* (in the finally block, stop_notify not yet called), and the ends "not_found"
\* (RuntimeError raised), "raised" (another error raised), "returned", "cancelled"
\* (CancelledError raised), "closed".
Goto(from, to) ==
    /\ stream_pc = from
    /\ stream_pc' = to
    /\ UNCHANGED <<stream_starts, notify_started, stop_notify_calls>>

StreamOnly == UNCHANGED <<ctlVars, ticks, strVars, delivered, sesVars>>

\* async for z in rmssd_z_stream(): the first __anext__ starts the generator
StartStream ==
    /\ session_pc = "live"
    /\ stream_pc = "idle"
    /\ stream_pc' = "scanning"
    /\ stream_starts' = stream_starts + 1
    /\ UNCHANGED <<notify_started, stop_notify_calls>>
    /\ StreamOnly

\* device = await find_polar_device(): found, or RuntimeError after the scan timeout
ScanFinds == Goto("scanning", "connecting") /\ StreamOnly
ScanTimesOut == Goto("scanning", "not_found") /\ StreamOnly
\* await scanner.start() raises (no usable adapter): the error leaves the generator
ScanRaises == Goto("scanning", "raised") /\ StreamOnly

\* async with BleakClient(...): connected, or TimeoutError / BleakError and return
ConnectSucceeds == Goto("connecting", "starting") /\ StreamOnly
ConnectFails == Goto("connecting", "returned") /\ StreamOnly

\* await client.start_notify(...): done, or BleakError and return
StartNotifySucceeds ==
    /\ stream_pc = "starting"
    /\ stream_pc' = "waiting"
    /\ notify_started' = TRUE
    /\ UNCHANGED <<stream_starts, stop_notify_calls>>
    /\ StreamOnly
StartNotifyFails == Goto("starting", "returned") /\ StreamOnly

\* where an exception raised at the await or at the yield of the inner try leads:
\* CancelledError is re-raised, GeneratorExit is not caught, both run the finally
OnExitCleanupInExcept(cause) ==
    IF cause = "cancel" THEN "finally_cancelled" ELSE "closed"
OnExit(cause) ==
    IF cause = "cancel" THEN "finally_cancelled" ELSE "finally_closed"

\* the task is cancelled while the generator is suspended in an await
Cancel ==
    /\ \/ stream_pc \in {"scanning", "connecting", "starting"} /\ stream_pc' = "cancelled"
       \/ stream_pc = "waiting" /\ stream_pc' = OnExit("cancel")
    /\ UNCHANGED <<stream_starts, notify_started, stop_notify_calls>>
    /\ StreamOnly

\* the consumer leaves its loop on the value it was given (break, or an exception in
\* its body): the generator stays suspended at the yield
ConsumerStops ==
    /\ QueueGetReturns
    /\ stream_pc' = "abandoned"
    /\ UNCHANGED <<stream_starts, notify_started, stop_notify_calls>>
    /\ UNCHANGED <<ctlVars, ticks, delivered, sesVars>>

\* the event loop closes the abandoned generator (aclose): GeneratorExit at the yield
Finalize ==
    /\ stream_pc = "abandoned"
    /\ stream_pc' = OnExit("close")
    /\ UNCHANGED <<stream_starts, notify_started, stop_notify_calls>>
    /\ StreamOnly

\* finally: await client.stop_notify(HRM_CHAR_UUID), a BleakError being swallowed
StopNotify ==
    /\ stream_pc \in {"finally_cancelled", "finally_closed"}
    /\ stop_notify_calls' = stop_notify_calls + 1
    /\ stream_pc' = IF stream_pc = "finally_cancelled" THEN "cancelled" ELSE "closed"
    /\ UNCHANGED <<stream_starts, notify_started>>
    /\ StreamOnly

InitLife ==
    /\ current_params = DefaultParams
    /\ prev_params = DefaultParams
    /\ start_params = DefaultParams
    /\ last_call = [hrv_z |-> None, faa_z |-> None, is_baseline |-> FALSE]
    /\ ticks = 0
    /\ StreamCreated
    /\ StreamNotStarted
    /\ SessionCreated(NoEngine)

\* the handler state is created when the device is found; time runs from there
NextLife ==
    \/ StartStream
    \/ ScanFinds
    \/ ScanTimesOut
    \/ ScanRaises
    \/ ConnectSucceeds
    \/ ConnectFails
    \/ StartNotifySucceeds
    \/ StartNotifyFails
    \/ \E data \in BuildFrames : hrm_notification_handler(data)
    \/ (stream_pc \notin {"idle", "scanning"} /\ ClockTick)
    \/ QueueGet
    \/ ConsumerStops
    \/ Cancel
    \/ Finalize
    \/ StopNotify

\* asyncio.run closes every async generator before it returns, and an awaited
\* stop_notify completes
SpecLife ==
    InitLife /\ [][NextLife]_vars /\ WF_vars(Finalize) /\ WF_vars(StopNotify)

\* --- compute_rmssd on its own: any window of up to MaxWindow intervals
WindowValues == {900 * MsScale, 950 * MsScale, 1000 * MsScale}
Windows == UNION {[1..n -> WindowValues] : n \in 0..MaxWindow}

InitRmssd ==
    /\ current_params = DefaultParams
    /\ prev_params = DefaultParams
    /\ start_params = DefaultParams
    /\ last_call = [hrv_z |-> None, faa_z |-> None, is_baseline |-> FALSE]
    /\ ticks = 0
    /\ rr_ms_window \in Windows
    /\ baseline_rmssds = <<>>
    /\ baseline_done = FALSE
    /\ base_mean = 0
    /\ base_std = SecScale
    /\ queue = <<>>
    /\ now = 0
    /\ received = rr_ms_window
    /\ rmssd_out = None
    /\ StreamNotStarted
    /\ SessionCreated(NoEngine)

CallComputeRmssd ==
    /\ ticks = 0
    /\ rmssd_out' = compute_rmssd(rr_ms_window)
    /\ ticks' = 1
    /\ UNCHANGED <<rr_ms_window, baseline_rmssds, baseline_done, base_mean, base_std,
                   queue, now, received>>
    /\ UNCHANGED <<ctlVars, lifeVars, delivered, sesVars>>

NextRmssd == CallComputeRmssd

SpecRmssd == InitRmssd /\ [][NextRmssd]_vars
\* ---------------------------------------------------------------- session hook
\* polar_run.run_session resets current_params to AudioParams() before the loop.
Init ==
    /\ current_params = DefaultParams
    /\ prev_params = DefaultParams
    /\ start_params = DefaultParams
    /\ last_call = NoCall
    /\ ticks = 0
    /\ StreamCreated
    /\ StreamNotStarted
    /\ \E engine \in {NoEngine, Engine(DefaultParams)} : SessionCreated(engine)

\* if audio_engine is not None: audio_engine.set_params(current_params)
SetNothing(engine, params) == engine
set_params(engine, params) ==
    IF engine.present THEN [engine EXCEPT !.params = params] ELSE engine

\* what the hook does to the controller state and to the engine
BiofeedbackStep(z, is_baseline, is_post_window) ==
    /\ ticks < MaxTicks
    /\ CallExact(current_params, Some(z), is_baseline)
    /\ current_params' =
          update_audio_params(current_params, Some(z), None, is_baseline, is_post_window)
    /\ prev_params' = current_params
    /\ last_call' = Call(Some(z), None, is_baseline)
    /\ ticks' = ticks + 1
    /\ audio_engine' = set_params(audio_engine, current_params')
    /\ UNCHANGED start_params

\* polar_run.apply_biofeedback: one tick; faa_z is None, is_post_window is passed on.
apply_biofeedback(z, is_baseline, is_post_window) ==
    /\ BiofeedbackStep(z, is_baseline, is_post_window)
    /\ UNCHANGED <<strVars, lifeVars, delivered>>
    /\ UNCHANGED <<session_pc, samples, t0, sim_started, z_source, obsVars, outVars>>

\* run_session passes is_post_window = False on every tick.
Next == \E z \in ZValues, b \in BOOLEAN : apply_biofeedback(z, b, FALSE)

Spec == Init /\ [][Next]_vars

\* ---------------------------------------------------------------- run_session
\* session_pc: "live" (async for over rmssd_z_stream), "sim" (async for over
\* simulated_rmssd_z_stream), "cleanup" (the finally block), "post" (after it),
\* "summary" (samples exist, compute_pre_post next), "log" (write_per_sample_log
\* next), "row" (append_summary_row next), and the ends "done" (run_session
\* returned), "failed" (an exception raised after the finally block), "propagated"
\* (the exception that ended the loop left run_session after the finally block).
BASELINE_SECONDS == 1    \* default 60
PRE_WINDOW_SECONDS == 2  \* default 120
POST_WINDOW_SECONDS == 1 \* default 60
MaxSamples == 3          \* longest sample list handed to compute_pre_post (SpecSummary)

\* the generator the except-branch iterates after "Could not find Polar H10"
FallbackRetriesLive == "live"
FallbackStream == "sim"

\* (t_rel, z, current_params.tempo, current_params.pitch, current_params.volume)
Sample(t_rel, z, params) ==
    [t_rel |-> t_rel, z |-> z,
     tempo |-> params.tempo, pitch |-> params.pitch, volume |-> params.volume]

\* --- post-processing: compute_pre_post, write_per_sample_log, append_summary_row
MeanScale == 10000       \* a mean z is kept in 1/MeanScale, the grid of round(., 4)

\* what a call of compute_pre_post gave: the tuple it returned, or the exception
NoSummary ==
    [outcome |-> "none", by |-> "none", pre_mean |-> 0, post_mean |-> 0, delta |-> 0,
     t_last |-> 0, n_pre |-> 0, n_post |-> 0]
Raises(by, exception) == [NoSummary EXCEPT !.outcome = exception, !.by = by]

ZOf(rows) == [i \in 1..Len(rows) |-> rows[i].z]

\* sum(vals) / len(vals), len(vals) > 0
MeanZ(vals) == (SumSeq(vals) * MeanScale) \div Len(vals)

\* t <= PRE_WINDOW_SECONDS
InPreWindowStrict(t) == t < PRE_WINDOW_SECONDS
InPreWindow(t) == t <= PRE_WINDOW_SECONDS

\* post_start = max(0.0, t_last - POST_WINDOW_SECONDS)
PostStart(t_last) == Max(0, t_last - POST_WINDOW_SECONDS)

PreVals(rows) == ZOf(SelectSeq(rows, LAMBDA s : InPreWindow(s.t_rel)))
PostVals(rows) ==
    LET post_start == PostStart(rows[Len(rows)].t_rel)
    IN  ZOf(SelectSeq(rows, LAMBDA s : s.t_rel >= post_start))

Returns(by, rows) ==
    LET pre_mean == MeanZ(PreVals(rows))
        post_mean == MeanZ(PostVals(rows))
    IN  [outcome |-> "returned", by |-> by,
         pre_mean |-> pre_mean, post_mean |-> post_mean, delta |-> post_mean - pre_mean,
         t_last |-> rows[Len(rows)].t_rel,
         n_pre |-> Len(PreVals(rows)), n_post |-> Len(PostVals(rows))]

\* polar_run.compute_pre_post: only the empty list is tested for; an empty window
\* reaches sum(vals) / len(vals) with len(vals) = 0
compute_pre_post(rows) ==
    IF rows = <<>> THEN Raises("polar_run", "ValueError")
    ELSE IF PreVals(rows) = <<>> THEN Raises("polar_run", "ZeroDivisionError")
    ELSE IF PostVals(rows) = <<>> THEN Raises("polar_run", "ZeroDivisionError")
    ELSE Returns("polar_run", rows)

\* session_stress_csv.compute_pre_post: its pre-window end BASELINE_SECONDS is 120,
\* the value of polar_run's PRE_WINDOW_SECONDS; each empty window is tested for
session_stress_csv_compute_pre_post(rows) ==
    IF rows = <<>> THEN Raises("session_stress_csv", "ValueError")
    ELSE IF PreVals(rows) = <<>> THEN Raises("session_stress_csv", "ValueError")
    ELSE IF PostVals(rows) = <<>> THEN Raises("session_stress_csv", "ValueError")
    ELSE Returns("session_stress_csv", rows)

\* round(x, n) on a value kept in model units, unit being 10^-n: the nearest multiple,
\* a tie going to the even one
Round(x, unit) ==
    LET q == x \div unit
        r == x - q * unit
    IN  IF 2 * r < unit THEN q * unit
        ELSE IF 2 * r > unit THEN (q + 1) * unit
        ELSE IF q % 2 = 0 THEN q * unit ELSE (q + 1) * unit

\* one row of the per-sample log; t_rel is in whole seconds and z in whole units
\* here, both on the grids of round(t_rel, 3) and round(z, 6)
LogRow(s) ==
    [t_rel |-> s.t_rel, z |-> s.z,
     tempo |-> Round(s.tempo, PScale \div 10000),
     pitch |-> Round(s.pitch, PScale \div 10000),
     volume |-> Round(s.volume, PScale \div 100)]

\* write_per_sample_log: the file is opened with "w" and gets one row per sample
write_per_sample_log(rows) == [i \in 1..Len(rows) |-> LogRow(rows[i])]

\* append_summary_row: one row appended to the summary file
append_summary_row(file, s) ==
    Append(file, [duration_s |-> s.t_last, baseline_s |-> BASELINE_SECONDS,
                  pre_window_s |-> PRE_WINDOW_SECONDS,
                  post_window_s |-> POST_WINDOW_SECONDS,
                  pre_mean_z |-> s.pre_mean, post_mean_z |-> s.post_mean,
                  delta_z |-> s.delta, pre_n |-> s.n_pre, post_n |-> s.n_post])

\* --- the tick loop
\* if audio_engine is not None and audio_engine.finished
NeverFinished(engine) == FALSE
SinkFinished(engine) == engine.present /\ engine.finished

\* the arguments run_session passes to apply_biofeedback on a tick at t_rel
IsBaselineStrict(t_rel) == t_rel < BASELINE_SECONDS
IsBaseline(t_rel) == t_rel <= BASELINE_SECONDS
IsPostWindow(t_rel) == FALSE

\* if t0 is None: t0 = time.time()
OriginAtStart(origin, time) == 0
TimeOrigin(origin, time) == IF origin.present THEN origin.val ELSE time

\* One iteration of either loop body for the pulled z.  raised is "none", or the
\* exception that leaves the body at its last statement, the print of
\* apply_biofeedback ("Exception" for an error of the output stream,
\* "KeyboardInterrupt" for a SIGINT delivered while the body runs).
TickBody(z, src, raised) ==
    LET origin == TimeOrigin(t0, now)
        t_rel  == now - origin
    IN  /\ t0' = Some(origin)
        /\ z_source' = src
        /\ pulls' = pulls + 1
        /\ UNCHANGED <<sim_started, outVars>>
        /\ IF SinkFinished(audio_engine)
           THEN /\ raised = "none"
                /\ session_pc' = "cleanup"
                /\ exit_cause' = "finished"
                /\ UNCHANGED <<ctlVars, ticks, samples, audio_engine, tick_flags>>
           ELSE /\ samples' = Append(samples, Sample(t_rel, z, current_params))
                /\ BiofeedbackStep(z, IsBaseline(t_rel), IsPostWindow(t_rel))
                /\ tick_flags' = Append(tick_flags,
                                        [is_baseline |-> IsBaseline(t_rel),
                                         is_post_window |-> IsPostWindow(t_rel)])
                /\ session_pc' = IF raised = "none" THEN session_pc ELSE "cleanup"
                /\ exit_cause' = IF raised = "none" THEN exit_cause ELSE raised

TickOutcomes == {"none", "Exception", "KeyboardInterrupt"}

\* async for z in rmssd_z_stream(): the generator yields a z-score (SessionZ stands
\* for the values the handler may have queued) and the body runs without awaiting;
\* on break or on an exception the generator is left suspended at its yield
LiveTick(z, raised) ==
    /\ session_pc = "live"
    /\ stream_pc = "waiting"
    /\ TickBody(z, "live", raised)
    /\ stream_pc' = IF session_pc' = "cleanup" THEN "abandoned" ELSE "waiting"
    /\ UNCHANGED <<stream_starts, notify_started, stop_notify_calls, strVars, delivered>>

\* except RuntimeError as e: if "Polar H10" in str(e): t0 = None, then the loop over
\* the fallback generator
PolarNotFound ==
    /\ session_pc = "live"
    /\ stream_pc = "not_found"
    /\ t0' = None
    /\ IF FallbackStream = "sim"
       THEN /\ session_pc' = "sim"
            /\ sim_started' = TRUE
            /\ UNCHANGED lifeVars
       ELSE /\ stream_pc' = "scanning"
            /\ stream_starts' = stream_starts + 1
            /\ UNCHANGED <<session_pc, sim_started, notify_started, stop_notify_calls>>
    /\ UNCHANGED <<ctlVars, ticks, strVars, delivered, audio_engine, samples, z_source>>
    /\ UNCHANGED <<obsVars, outVars>>

\* async for z in simulated_rmssd_z_stream(): same body
SimTick(z, raised) ==
    /\ session_pc = "sim"
    /\ TickBody(z, "sim", raised)
    /\ UNCHANGED <<lifeVars, strVars, delivered>>

\* how the loop of run_session ends for a reason other than its own body
LoopEnds(cause) ==
    /\ session_pc' = "cleanup"
    /\ exit_cause' = cause
    /\ UNCHANGED <<ctlVars, ticks, strVars, lifeVars, delivered>>
    /\ UNCHANGED <<audio_engine, samples, t0, sim_started, z_source>>
    /\ UNCHANGED <<pulls, tick_flags, outVars>>

\* rmssd_z_stream returned (connection failure): the async for ends normally
LiveStreamEnds ==
    /\ session_pc = "live"
    /\ stream_pc = "returned"
    /\ LoopEnds("stream_end")

\* rmssd_z_stream raised something else than the "Polar H10" RuntimeError:
\* except Exception
LiveStreamRaises ==
    /\ session_pc = "live"
    /\ stream_pc = "raised"
    /\ LoopEnds("Exception")

\* the task was cancelled while rmssd_z_stream was awaiting: the CancelledError
\* leaves the generator and reaches run_session, where no except clause matches it
LiveCancelled ==
    /\ session_pc = "live"
    /\ stream_pc = "cancelled"
    /\ LoopEnds("CancelledError")

\* the task is cancelled while simulated_rmssd_z_stream awaits asyncio.sleep
SimCancelled ==
    /\ session_pc = "sim"
    /\ LoopEnds("CancelledError")

\* the player reaches the end of the file: AudioEngine._on_end_reached
AudioEnds ==
    /\ audio_engine.present
    /\ ~audio_engine.finished
    /\ audio_engine.stops = 0
    /\ audio_engine' = [audio_engine EXCEPT !.finished = TRUE]
    /\ UNCHANGED <<ctlVars, ticks, strVars, lifeVars, delivered>>
    /\ UNCHANGED <<session_pc, samples, t0, sim_started, z_source, obsVars, outVars>>

\* AudioEngine.stop, errors of the player swallowed
NoStop(engine) == engine
stop(engine) == [engine EXCEPT !.stops = @ + 1]

\* where run_session goes after its finally block: an exception no except clause
\* caught is re-raised, anything else falls through to the post-processing
ReraisesErrors(cause) ==
    IF cause \in {"CancelledError", "Exception"} THEN "propagated" ELSE "post"
AfterFinally(cause) == IF cause = "CancelledError" THEN "propagated" ELSE "post"

\* finally: if audio_engine is not None: audio_engine.stop()
Cleanup ==
    /\ session_pc = "cleanup"
    /\ session_pc' = AfterFinally(exit_cause)
    /\ audio_engine' = IF audio_engine.present THEN stop(audio_engine) ELSE audio_engine
    /\ UNCHANGED <<ctlVars, ticks, strVars, lifeVars, delivered>>
    /\ UNCHANGED <<samples, t0, sim_started, z_source, obsVars, outVars>>

SessionStep(to) ==
    /\ session_pc' = to
    /\ UNCHANGED <<ctlVars, ticks, strVars, lifeVars, delivered>>
    /\ UNCHANGED <<audio_engine, samples, t0, sim_started, z_source, obsVars>>

\* if not samples: raise RuntimeError("No HRV data collected (Polar or simulated).")
NoSamplesCheck ==
    /\ session_pc = "post"
    /\ SessionStep("summary")
    /\ UNCHANGED outVars
CheckSamples ==
    /\ session_pc = "post"
    /\ SessionStep(IF samples = <<>> THEN "failed" ELSE "summary")
    /\ UNCHANGED outVars

\* pre_mean, post_mean, delta, t_last, n_pre, n_post = compute_pre_post(samples)
ComputeSummary ==
    /\ session_pc = "summary"
    /\ summary' = compute_pre_post(samples)
    /\ SessionStep(IF summary'.outcome = "returned" THEN "log" ELSE "failed")
    /\ UNCHANGED <<log_rows, summary_rows>>

\* per_sample_path = write_per_sample_log(samples, session_id)
WriteLog ==
    /\ session_pc = "log"
    /\ log_rows' = write_per_sample_log(samples)
    /\ SessionStep("row")
    /\ UNCHANGED <<summary, summary_rows>>

\* append_summary_row(session_id, pre_mean, post_mean, delta, t_last, n_pre, n_post, ...)
AppendSummaryRow ==
    /\ session_pc = "row"
    /\ summary_rows' = append_summary_row(summary_rows, summary)
    /\ SessionStep("done")
    /\ UNCHANGED <<summary, log_rows>>

\* the z-scores a stream yields in a session run
SessionZ == {-1, 150}

NextSession ==
    \/ StartStream \/ ScanFinds \/ ScanTimesOut \/ ScanRaises
    \/ ConnectSucceeds \/ ConnectFails
    \/ StartNotifySucceeds \/ StartNotifyFails
    \/ \E z \in SessionZ, raised \in TickOutcomes : LiveTick(z, raised)
    \/ PolarNotFound
    \/ \E z \in SessionZ, raised \in TickOutcomes : SimTick(z, raised)
    \/ LiveStreamEnds \/ LiveStreamRaises
    \/ Cancel \/ LiveCancelled \/ SimCancelled
    \/ AudioEnds \/ ClockTick \/ Finalize \/ StopNotify
    \/ Cleanup \/ CheckSamples \/ ComputeSummary \/ WriteLog \/ AppendSummaryRow

SpecSession == Init /\ [][NextSession]_vars

\* The session task keeps being scheduled: a scan, a connection attempt and
\* start_notify end (each has a timeout), the simulated stream yields after its
\* sleep, run_session takes each of its own steps, asyncio.run closes the generators
\* and an awaited stop_notify completes.  Nothing is assumed of the sensor: the live
\* stream need not yield a z-score.
SpecSessionFair ==
    /\ SpecSession
    /\ WF_vars(StartStream)
    /\ WF_vars(ScanFinds \/ ScanTimesOut \/ ScanRaises)
    /\ WF_vars(ConnectSucceeds \/ ConnectFails)
    /\ WF_vars(StartNotifySucceeds \/ StartNotifyFails)
    /\ WF_vars(\E z \in SessionZ, raised \in TickOutcomes : SimTick(z, raised))
    /\ WF_vars(PolarNotFound \/ LiveStreamEnds \/ LiveStreamRaises \/ LiveCancelled)
    /\ WF_vars(Cleanup \/ CheckSamples \/ ComputeSummary \/ WriteLog \/ AppendSummaryRow)
    /\ WF_vars(Finalize \/ StopNotify)

\* --- compute_pre_post on its own: any list of up to MaxSamples samples, the
\* t_rel values in any order and up to one second past the pre window
MaxSampleTime == PRE_WINDOW_SECONDS + 1
SummaryZ == {-1, 2}
SummarySamples ==
    {Sample(t, z, DefaultParams) : t \in 0..MaxSampleTime, z \in SummaryZ}
SampleLists == UNION {[1..n -> SummarySamples] : n \in 0..MaxSamples}

InitSummary ==
    /\ current_params = DefaultParams
    /\ prev_params = DefaultParams
    /\ start_params = DefaultParams
    /\ last_call = NoCall
    /\ ticks = 0
    /\ StreamCreated
    /\ StreamNotStarted
    /\ \E rows \in SampleLists :
          /\ session_pc = "summary"
          /\ audio_engine = NoEngine
          /\ samples = rows
          /\ t0 = None
          /\ sim_started = FALSE
          /\ z_source = "none"
          /\ exit_cause = "none"
          /\ pulls = 0
          /\ tick_flags = <<>>
          /\ summary = NoSummary
          /\ log_rows = <<>>
          /\ summary_rows = <<>>

CallComputePrePost ==
    /\ summary = NoSummary
    /\ summary' = compute_pre_post(samples)
    /\ SessionStep("summary")
    /\ UNCHANGED <<log_rows, summary_rows>>

CallCsvComputePrePost ==
    /\ summary = NoSummary
    /\ summary' = session_stress_csv_compute_pre_post(samples)
    /\ SessionStep("summary")
    /\ UNCHANGED <<log_rows, summary_rows>>

NextSummary == CallComputePrePost \/ CallCsvComputePrePost

SpecSummary == InitSummary /\ [][NextSummary]_vars

\* ---------------------------------------------------------------- held-input runs
\* update_audio_params called repeatedly by a caller that threads the result, from any
\* previous parameters, with the arguments of the first call repeated on every call.
InitHold ==
    /\ current_params \in PrevParams
    /\ prev_params = current_params
    /\ start_params = current_params
    /\ last_call = NoCall
    /\ ticks = 0
    /\ StreamCreated
    /\ StreamNotStarted
    /\ SessionCreated(NoEngine)

HoldTick(hrv_z, faa_z, is_baseline) ==
    /\ ticks < MaxHold
    /\ ticks > 0 => last_call = Call(hrv_z, faa_z, is_baseline)
    /\ CallExact(current_params, hrv_z, is_baseline)
    /\ current_params' = update_audio_params(current_params, hrv_z, faa_z, is_baseline, FALSE)
    /\ prev_params' = current_params
    /\ last_call' = Call(hrv_z, faa_z, is_baseline)
    /\ ticks' = ticks + 1
    /\ UNCHANGED <<start_params, strVars, lifeVars, delivered, sesVars>>

NextHold == \E z \in OptZ, f \in OptFaa, b \in BOOLEAN : HoldTick(z, f, b)

SpecHold == InitHold /\ [][NextHold]_vars /\ WF_vars(NextHold)

\* ================================================================ claims
InRange(p) ==
    /\ TEMPO_MIN <= p.tempo /\ p.tempo <= TEMPO_MAX
    /\ PITCH_MIN <= p.pitch /\ p.pitch <= PITCH_MAX
    /\ VOLUME_MIN <= p.volume /\ p.volume <= VOLUME_MAX

RelaxCall(c) == c.is_baseline \/ ~c.hrv_z.present

\* C1: in a session started from AudioParams(), after any sequence of baseline and
\* non-baseline ticks with any z-scores, current_params lies within the configured
\* [min,max] of tempo, pitch and volume.
C1_SessionParamsInRange == InRange(current_params)

\* a baseline tick taken right after a tick that pinned tempo at TEMPO_MAX
C1_Witness ==
    /\ ticks >= 2
    /\ last_call.is_baseline
    /\ prev_params.tempo = TEMPO_MAX
    /\ prev_params.pitch = PITCH_MIN
    /\ current_params.tempo < TEMPO_MAX

\* C2: every call of update_audio_params returns parameters within the configured
\* ranges, in both branches, for any previous parameters, also out-of-range ones.
C2_EveryCallClamps == ticks > 0 => InRange(current_params)

\* C3: on a tick with is_baseline or without hrv_z every parameter moves toward its
\* neutral value without overshoot: it stays on the same side of neutral, between the
\* previous value and neutral, at exactly 0.98 of the previous distance; a parameter
\* at neutral stays there.
RelaxedToward(old, new, neutral) ==
    /\ (old >= neutral) => (neutral <= new /\ new <= old)
    /\ (old <= neutral) => (old <= new /\ new <= neutral)
    /\ (old > neutral) => new > neutral
    /\ (old < neutral) => new < neutral
    /\ Abs(new - neutral) <= Abs(old - neutral)
    /\ RelaxDiv * (Abs(old - neutral) - Abs(new - neutral)) = Abs(old - neutral)

C3_RelaxTowardNeutral ==
    (ticks > 0 /\ RelaxCall(last_call)) =>
        /\ RelaxedToward(prev_params.tempo, current_params.tempo, NEUTRAL_TEMPO)
        /\ RelaxedToward(prev_params.pitch, current_params.pitch, NEUTRAL_PITCH)
        /\ RelaxedToward(prev_params.volume, current_params.volume, NEUTRAL_VOLUME)

\* a second relaxation, from above neutral (tempo), from below (volume), at neutral (pitch)
C3_Witness ==
    /\ ticks = 2
    /\ RelaxCall(last_call)
    /\ prev_params.tempo > NEUTRAL_TEMPO
    /\ prev_params.volume < NEUTRAL_VOLUME
    /\ prev_params.pitch = NEUTRAL_PITCH
    /\ current_params.tempo # prev_params.tempo

\* C4: from tempo 1.0, with hrv_z = -1.0, is_baseline false and no secondary signal on
\* every tick, tempo never decreases, is TEMPO_MAX after 15 ticks and stays TEMPO_MAX
\* on every later tick.
PinRun ==
    /\ ticks > 0
    /\ start_params.tempo = NEUTRAL_TEMPO
    /\ last_call = Call(Some(-1), None, FALSE)

C4_TempoPinsAtMax ==
    PinRun =>
        /\ prev_params.tempo <= current_params.tempo
        /\ ticks < 15 => current_params.tempo = NEUTRAL_TEMPO + ticks * Milli(10)
        /\ ticks >= 15 => current_params.tempo = TEMPO_MAX

C4_Witness ==
    /\ PinRun
    /\ ticks = MaxHold
    /\ prev_params.tempo = TEMPO_MAX
    /\ current_params.tempo = TEMPO_MAX

\* C5: on a non-baseline tick without secondary signal, from parameters strictly inside
\* their ranges: hrv_z < 0 raises tempo and volume; hrv_z > 0 lowers tempo, pitch and
\* volume.
StrictlyInside(p) ==
    /\ TEMPO_MIN < p.tempo /\ p.tempo < TEMPO_MAX
    /\ PITCH_MIN < p.pitch /\ p.pitch < PITCH_MAX
    /\ VOLUME_MIN < p.volume /\ p.volume < VOLUME_MAX

C5_ControlDirection ==
    (/\ ticks > 0
     /\ ~RelaxCall(last_call)
     /\ ~last_call.faa_z.present
     /\ StrictlyInside(prev_params)) =>
        /\ last_call.hrv_z.val < 0 =>
              /\ current_params.tempo > prev_params.tempo
              /\ current_params.volume > prev_params.volume
        /\ last_call.hrv_z.val > 0 =>
              /\ current_params.tempo < prev_params.tempo
              /\ current_params.pitch < prev_params.pitch
              /\ current_params.volume < prev_params.volume

\* C6: the tempo returned does not depend on faa_z (present or absent), and on a
\* baseline or z-absent tick no returned parameter depends on faa_z.
C6_SecondaryFrame ==
    ticks > 0 =>
        \A f \in OptFaa :
            LET other == update_audio_params(prev_params, last_call.hrv_z, f,
                                             last_call.is_baseline, FALSE)
            IN  /\ other.tempo = current_params.tempo
                /\ RelaxCall(last_call) => other = current_params

\* a controlling tick with a secondary signal that moved pitch and volume
C6_Witness ==
    /\ ticks > 0
    /\ ~RelaxCall(last_call)
    /\ last_call.faa_z.present
    /\ last_call.hrv_z.val = 0
    /\ current_params.pitch # prev_params.pitch
    /\ current_params.volume # prev_params.volume
    /\ current_params.tempo = prev_params.tempo

\* C7: the secondary term is not integrated: with hrv_z = 0 and a constant faa_z on n
\* consecutive non-baseline ticks, what the secondary signal adds to pitch and volume
\* after n ticks is what it adds after one tick.
RECURSIVE Thread(_, _, _, _, _)
Thread(params, hrv_z, faa_z, is_baseline, n) ==
    IF n = 0 THEN params
    ELSE Thread(update_audio_params(params, hrv_z, faa_z, is_baseline, FALSE),
                hrv_z, faa_z, is_baseline, n - 1)

\* what faa_z adds to the parameters after n ticks from start_params
SecondaryShare(n) ==
    LET with    == Thread(start_params, last_call.hrv_z, last_call.faa_z, FALSE, n)
        without == Thread(start_params, last_call.hrv_z, None, FALSE, n)
    IN  <<with.pitch - without.pitch, with.volume - without.volume>>

C7_SecondaryNotIntegrated ==
    (/\ ticks > 0
     /\ ~last_call.is_baseline
     /\ last_call.hrv_z = Some(0)
     /\ last_call.faa_z.present) => SecondaryShare(ticks) = SecondaryShare(1)

\* C9: compute_rmssd returns None for a window of fewer than 3 intervals, and for 3 or
\* more the square root (to the grid) of the mean of the squared successive differences
\* in window order, in seconds; [900, 950, 1000] ms gives 0.05 s.
RECURSIVE SuccSqSum(_, _)
SuccSqSum(w, i) ==
    IF i >= Len(w) THEN 0
    ELSE (w[i + 1] - w[i]) * (w[i + 1] - w[i]) + SuccSqSum(w, i + 1)

\* r_s (1/SecScale s) is the square root of the mean of the n squared differences
IsRootMeanSquare(r_s, w) ==
    LET n    == Len(w) - 1
        r_ms == (r_s * 1000) \div (SecScale \div MsScale)
    IN  /\ r_ms * r_ms * n <= SuccSqSum(w, 1)
        /\ SuccSqSum(w, 1) < (r_ms + 1) * (r_ms + 1) * n

C9_RmssdValue ==
    ticks = 1 =>
        /\ Len(rr_ms_window) < 3 => rmssd_out = None
        /\ Len(rr_ms_window) >= 3 =>
              /\ rmssd_out.present
              /\ IsRootMeanSquare(rmssd_out.val, rr_ms_window)
        /\ rr_ms_window = <<900 * MsScale, 950 * MsScale, 1000 * MsScale>> =>
              rmssd_out = Some(SecScale \div 20)

C9_Witness ==
    /\ ticks = 1
    /\ rr_ms_window = <<900 * MsScale, 950 * MsScale, 1000 * MsScale>>
    /\ rmssd_out = Some(SecScale \div 20)

\* C10: after every accepted frame the window holds at most rr_window_size values, and
\* they are the most recent min(total received, rr_window_size) intervals in arrival
\* order.
C10_WindowIsMostRecent ==
    /\ Len(rr_ms_window) <= rr_window_size
    /\ Len(rr_ms_window) = Min(Len(received), rr_window_size)
    /\ \A i \in 1..Len(rr_ms_window) :
          rr_ms_window[i] = received[Len(received) - Len(rr_ms_window) + i]

\* more intervals received than the window holds, the oldest ones evicted
C10_Witness ==
    /\ Len(received) >= rr_window_size + 2
    /\ Len(rr_ms_window) = rr_window_size
    /\ rr_ms_window # SubSeq(received, 1, rr_window_size)

\* --- the baseline of rmssd_z_stream

RECURSIVE Total(_)
Total(xs) == IF xs = <<>> THEN 0 ELSE xs[1] + Total(Tail(xs))
RECURSIVE TotalSq(_)
TotalSq(xs) == IF xs = <<>> THEN 0 ELSE xs[1] * xs[1] + TotalSq(Tail(xs))

\* m is the arithmetic mean of xs, s its population standard deviation, on the grid
IsMeanOf(m, xs) ==
    Len(xs) * m <= Total(xs) /\ Total(xs) < Len(xs) * (m + 1)
IsPStdevOf(s, xs) ==
    LET n == Len(xs)
        v == n * TotalSq(xs) - Total(xs) * Total(xs)
    IN  s * s * n * n <= v /\ v < (s + 1) * (s + 1) * n * n

SampleTaken == baseline_rmssds' = Append(baseline_rmssds, rmssd_out'.val)
ClosingStep == ~baseline_done /\ baseline_done'

\* C11: the baseline closes exactly on the first RMSSD sample at which the elapsed time
\* is at least baseline_duration_s and the accumulator, that sample included, holds at
\* least 3 samples: never with fewer than 3, never before the threshold; the frozen
\* mean and standard deviation are those of all samples up to the closing one.
C11_BaselineCloses ==
    [][ /\ ClosingStep =>
             /\ SampleTaken
             /\ now - baseline_start >= baseline_duration_s
             /\ Len(baseline_rmssds') >= 3
             /\ IsMeanOf(base_mean', baseline_rmssds')
             /\ \/ IsPStdevOf(base_std', baseline_rmssds')
                \/ IsPStdevOf(0, baseline_rmssds') /\ base_std' = StdFloor
        /\ ( /\ ~baseline_done
             /\ baseline_rmssds' # baseline_rmssds
             /\ now - baseline_start >= baseline_duration_s
             /\ Len(baseline_rmssds') >= 3 ) => baseline_done'
      ]_vars

\* closed on a later sample than the third: the earlier ones came before the threshold
C11_Witness ==
    /\ baseline_done
    /\ Len(baseline_rmssds) > 3
    /\ base_std # StdFloor

\* C12: the baseline is one-way: once baseline_done is true it is never false again,
\* and base_mean, base_std and the baseline accumulator are never changed by a later
\* frame.
C12_BaselineOneWay ==
    [][ baseline_done =>
           /\ baseline_done'
           /\ base_mean' = base_mean
           /\ base_std' = base_std
           /\ baseline_rmssds' = baseline_rmssds
      ]_vars

\* a frame after the close gave a sample that is none of the baseline samples
C12_Witness ==
    /\ baseline_done
    /\ queue # <<>>
    /\ rmssd_out.present
    /\ \A i \in 1..Len(baseline_rmssds) : baseline_rmssds[i] # rmssd_out.val

AllEqual(xs) == \A i \in 1..Len(xs) : xs[i] = xs[1]

\* C13: base_std is strictly positive in every reachable state; when all the baseline
\* samples are equal the standard deviation in use is the floor 0.01.
C13_StdPositive ==
    /\ base_std > 0
    /\ (baseline_done /\ AllEqual(baseline_rmssds)) => base_std = StdFloor

\* a baseline of equal, non-zero samples
C13_Witness ==
    /\ baseline_done
    /\ AllEqual(baseline_rmssds)
    /\ baseline_rmssds[1] > 0
    /\ base_std = StdFloor

\* z is (r - m) / s in 1/1000, on the grid
IsZOf(z, r, m, s) ==
    z * s <= (r - m) * 1000 /\ (r - m) * 1000 < (z + 1) * s

QueueGrows == Len(queue') > Len(queue)

\* C14: no z-score is emitted before the baseline has closed: nothing is on the queue
\* while samples are collected, nothing is put by the sample that closes the baseline,
\* and every value put was computed with the frozen mean and standard deviation.
C14_NoZBeforeClose ==
    /\ [](~baseline_done => queue = <<>>)
    /\ [][ QueueGrows =>
              /\ baseline_done
              /\ base_mean' = base_mean /\ base_std' = base_std
              /\ IsZOf(queue'[Len(queue')], rmssd_out'.val, base_mean, base_std)
         ]_vars

\* the first z-score after a baseline of three samples
C14_Witness ==
    /\ baseline_done
    /\ Len(baseline_rmssds) = 3
    /\ Len(queue) = 1
    /\ Len(received) = rr_window_size + 3

FrameAccepted == received' # received

\* C15: after the baseline has closed, every frame that yields an RMSSD sample produces
\* exactly one z = (rmssd - base_mean) / base_std and offers it to the queue; a step
\* that yields no RMSSD sample puts nothing on the queue.
C15_OneZPerSample ==
    [][ /\ (FrameAccepted /\ baseline_done /\ rmssd_out'.present) =>
              /\ Len(queue') = Len(queue) + 1
              /\ SubSeq(queue', 1, Len(queue)) = queue
              /\ IsZOf(queue'[Len(queue')], rmssd_out'.val, base_mean, base_std)
        /\ QueueGrows => (FrameAccepted /\ rmssd_out'.present)
      ]_vars

\* a sample below the baseline mean gave a negative z-score
C15_Witness ==
    /\ baseline_done
    /\ queue # <<>>
    /\ queue[Len(queue)] < 0
    /\ rmssd_out.val < base_mean

\* C16: the channel is bounded and lossy: the z-scores pending between producer and
\* consumer never exceed one slot, a z-score produced while the previous one has not
\* been drained being dropped.
C16_ChannelHoldsOne == Len(queue) <= 1

\* a frame shorter than 3 bytes, without the 0x10 bit, or with less than two bytes
\* after the heart rate
TooShort(data) == Len(data) < 3
LacksIntervalBit(data) == Len(data) >= 1 /\ (data[1] \div 16) % 2 = 0
NoCompleteInterval(data) ==
    Len(data) >= 1 /\ Len(data) - (IF data[1] % 2 = 1 THEN 3 ELSE 2) < 2
Dropped(data) == TooShort(data) \/ LacksIntervalBit(data) \/ NoCompleteInterval(data)

\* C18: a frame shorter than 3 bytes, a frame whose flags byte lacks the 0x10 bit, or a
\* frame that carries no complete interval leaves the interval window, the baseline
\* accumulator, the baseline state (done, mean, std) and the z-score queue unchanged.
C18_DroppedFrameChangesNothing ==
    (delivered.done /\ Dropped(delivered.data)) => StreamState = delivered.before

\* a frame without the 0x10 bit, with two interval bytes, arrived after the baseline
\* had closed and with a z-score pending
C18_Witness ==
    /\ delivered.done
    /\ LacksIntervalBit(delivered.data)
    /\ ~TooShort(delivered.data)
    /\ ~NoCompleteInterval(delivered.data)
    /\ baseline_done
    /\ queue # <<>>
    /\ StreamState = delivered.before

StreamOver == stream_pc \in {"not_found", "raised", "returned", "cancelled", "closed"}
ExitTaken == stream_pc \in {"abandoned", "finally_cancelled", "finally_closed"}

\* C17: in every run of rmssd_z_stream in which notifications were started, stop_notify
\* is called exactly once on every exit path (the consumer stops iterating, the
\* consumer is cancelled while waiting on the queue, an error ends the loop): never
\* twice, never while the consumer still iterates, and always once the stream is over.
C17_StopNotifyOnce ==
    /\ [](stop_notify_calls <= 1)
    /\ [](stop_notify_calls = 1 => notify_started)
    /\ [](stream_pc = "waiting" => stop_notify_calls = 0)
    /\ []((StreamOver /\ notify_started) => stop_notify_calls = 1)
    /\ ((notify_started /\ ExitTaken) ~> (StreamOver /\ stop_notify_calls = 1))

\* the consumer stopped on a z-score and the generator was closed afterwards
C17_Witness ==
    /\ stream_pc = "closed"
    /\ notify_started
    /\ stop_notify_calls = 1
    /\ baseline_done

LiveFailed == stream_pc \in {"not_found", "returned"}

\* C19: both live-sensor failure kinds make the session fall back to simulation: after
\* a discovery timeout, and after a failed connection to the discovered device, once
\* run_session has left the live loop it has started simulated_rmssd_z_stream.
C19_FailureFallsBack ==
    (LiveFailed /\ session_pc # "live") => sim_started

\* C20: no reconnection or retry: the live stream is started at most once in a session,
\* and once the session has switched to the simulated stream the live generator is
\* never touched and no z-score is pulled from it again.
C20_NoRetry ==
    /\ [](stream_starts <= 1)
    /\ [][ sim_started =>
              /\ sim_started'
              /\ UNCHANGED lifeVars
              /\ session_pc' # "live"
              /\ z_source' # "live"
         ]_vars

\* two ticks on simulated z-scores after the scan found no strap
C20_Witness ==
    /\ sim_started
    /\ stream_pc = "not_found"
    /\ stream_starts = 1
    /\ z_source = "sim"
    /\ Len(samples) >= 2

\* --- run_session: termination and post-processing
SessionOver == session_pc \in {"done", "failed", "propagated"}
LoopOver == session_pc \notin {"live", "sim"}
Triggers == {"finished", "stream_end", "Exception", "KeyboardInterrupt", "CancelledError"}
SummaryWritten ==
    /\ summary.outcome = "returned"
    /\ Len(log_rows) = Len(samples)
    /\ Len(summary_rows) = 1

\* C21: whatever ended the loop of run_session (the sink finished, the stream ended or
\* raised, a user interrupt, a task cancellation), a session that is over and collected
\* at least one sample has stopped the sink, computed the summary, written the
\* per-sample log and appended exactly one summary row.
C21_TerminationWritesSummary ==
    (SessionOver /\ samples # <<>> /\ exit_cause \in Triggers) =>
        /\ audio_engine.present => audio_engine.stops = 1
        /\ SummaryWritten

AfterCleanup == session_pc \in {"post", "summary", "log", "row", "done", "failed", "propagated"}

\* C22: when the audio engine was created, AudioEngine.stop is never called while a
\* loop of run_session runs nor twice, it has been called exactly once as soon as the
\* finally block is passed, whatever ended the loop, hence before compute_pre_post is
\* called, and after it no tick runs and the engine gets no parameters.
C22_StopOnceAfterLoop ==
    /\ [](audio_engine.present =>
            /\ audio_engine.stops <= 1
            /\ ~LoopOver => audio_engine.stops = 0
            /\ AfterCleanup => audio_engine.stops = 1
            /\ summary # NoSummary => audio_engine.stops = 1)
    /\ [][audio_engine.stops > 0 =>
            /\ ticks' = ticks
            /\ audio_engine'.params = audio_engine.params
            /\ audio_engine'.stops >= audio_engine.stops]_vars

\* the engine was stopped once after a cancellation that came when samples existed
C22_Witness ==
    /\ audio_engine.present
    /\ audio_engine.stops = 1
    /\ session_pc = "propagated"
    /\ exit_cause = "CancelledError"
    /\ samples # <<>>

IsTick == pulls' = pulls + 1 /\ ~(audio_engine.present /\ audio_engine.finished)
LoggedAs(row, s) ==
    /\ row.t_rel = s.t_rel
    /\ row.z = s.z
    /\ 2 * Abs(row.tempo - s.tempo) <= PScale \div 10000
    /\ 2 * Abs(row.pitch - s.pitch) <= PScale \div 10000
    /\ 2 * Abs(row.volume - s.volume) <= PScale \div 100

PreSet == {i \in 1..Len(samples) : samples[i].t_rel <= PRE_WINDOW_SECONDS}
PostSet ==
    {i \in 1..Len(samples) :
        samples[i].t_rel >= samples[Len(samples)].t_rel - POST_WINDOW_SECONDS}
RECURSIVE ZSum(_)
ZSum(S) == IF S = {} THEN 0
           ELSE LET i == CHOOSE j \in S : TRUE IN samples[i].z + ZSum(S \ {i})
\* m is the mean of z over the samples of S, cut to the grid of 1/MeanScale
IsMeanOver(m, S) ==
    /\ Cardinality(S) * m <= MeanScale * ZSum(S)
    /\ MeanScale * ZSum(S) < Cardinality(S) * (m + 1)
Called == summary.outcome # "none"

\* C24: called on a non-empty list of samples of which some lie in the pre window,
\* compute_pre_post (of polar_run and of session_stress_csv alike) returns the mean of
\* z over the samples with t_rel <= PRE_WINDOW_SECONDS, the mean of z over the samples
\* with t_rel >= t_last - POST_WINDOW_SECONDS, their difference post - pre, the t_rel
\* of the last sample, and the sizes of the two sets, as computed from the set
\* definitions.
C24_PrePostMeans ==
    (Called /\ samples # <<>> /\ PreSet # {} /\ PostSet # {}) =>
        /\ summary.outcome = "returned"
        /\ IsMeanOver(summary.pre_mean, PreSet)
        /\ IsMeanOver(summary.post_mean, PostSet)
        /\ summary.delta = summary.post_mean - summary.pre_mean
        /\ summary.t_last = samples[Len(samples)].t_rel
        /\ summary.n_pre = Cardinality(PreSet)
        /\ summary.n_post = Cardinality(PostSet)

\* polar_run's function returned for three samples of which two lie in the pre window
\* (one exactly at its end) and two in the post window, with a fractional mean
C24_Witness ==
    /\ summary.by = "polar_run"
    /\ summary.outcome = "returned"
    /\ Len(samples) = 3
    /\ summary.n_pre = 2
    /\ summary.n_post = 2
    /\ \E i \in PreSet : samples[i].t_rel = PRE_WINDOW_SECONDS
    /\ summary.pre_mean % MeanScale # 0
    /\ summary.delta # 0

\* C25: a call of compute_pre_post on an empty list of samples, or on samples none of
\* which lies in the pre window or none in the post window, ends with the explicit
\* insufficient-data error (ValueError) and no summary.
C25_InsufficientDataError ==
    (Called /\ (samples = <<>> \/ PreSet = {} \/ PostSet = {})) =>
        summary.outcome = "ValueError"

\* --- run_session: errors
ErrorEndsLoop == exit_cause # "Exception" /\ exit_cause' = "Exception"

\* C26: an error raised in the tick loop (by the stream, or in the hook at the end of a
\* tick) is caught in run_session: it ends the loop without touching the samples
\* appended before, it never leaves run_session, no sample changes once the loop is
\* over, and a session so ended that has samples stops the sink, computes the summary
\* from these samples, logs each of them and appends one summary row.
C26_ErrorKeepsSamples ==
    /\ [][ErrorEndsLoop =>
            /\ session_pc' = "cleanup"
            /\ SubSeq(samples', 1, Len(samples)) = samples]_vars
    /\ [][LoopOver => samples' = samples]_vars
    /\ [](exit_cause = "Exception" =>
            /\ LoopOver
            /\ session_pc # "propagated"
            /\ (SessionOver /\ samples # <<>>) =>
                  /\ audio_engine.present => audio_engine.stops = 1
                  /\ SummaryWritten
                  /\ IsMeanOver(summary.pre_mean, PreSet)
                  /\ IsMeanOver(summary.post_mean, PostSet)
                  /\ summary.t_last = samples[Len(samples)].t_rel
                  /\ \A k \in 1..Len(samples) : LoggedAs(log_rows[k], samples[k]))

\* a live session ended by an error on its second tick wrote its summary
C26_Witness ==
    /\ exit_cause = "Exception"
    /\ session_pc = "done"
    /\ z_source = "live"
    /\ Len(samples) = 2
    /\ Len(log_rows) = 2

\* --- run_session: phases and the order within a tick
\* C27: the flags of a tick depend on its elapsed time only, no tick is treated as
\* baseline after one that was not, and in a session that is over the post-window
\* flag passed to the controller on a tick tells whether its sample lies in the post
\* window (t_rel >= t_last - POST_WINDOW_SECONDS).
C27_PhaseFlags ==
    /\ Len(tick_flags) = Len(samples)
    /\ \A i \in 1..Len(samples) :
          /\ tick_flags[i].is_baseline = (samples[i].t_rel <= BASELINE_SECONDS)
          /\ \A j \in i..Len(samples) :
                tick_flags[j].is_baseline => tick_flags[i].is_baseline
          /\ SessionOver => (tick_flags[i].is_post_window <=> i \in PostSet)

ParamsOf(s) == [tempo |-> s.tempo, pitch |-> s.pitch, volume |-> s.volume]

\* C28: the (tempo, pitch, volume) stored in the sample of a tick are the parameters
\* the controller produced on that tick, the ones forwarded to the sink: in every
\* state the last sample holds the current parameters.
C28_SampleHoldsTickParams ==
    samples # <<>> =>
        /\ ParamsOf(samples[Len(samples)]) = ParamsOf(current_params)
        /\ audio_engine.present =>
              ParamsOf(samples[Len(samples)]) = ParamsOf(audio_engine.params)

\* --- hrm_notification_handler: the intervals of an accepted frame
Accepted == delivered.done /\ ~Dropped(delivered.data)
\* 0-based offset of the first interval, and the number of whole intervals behind it
RROffset(data) == IF data[1] % 2 = 1 THEN 3 ELSE 2
RRCount(data) == (Len(data) - RROffset(data)) \div 2
\* the k-th (1-based) little-endian uint16 from the offset on
RawAt(data, k) ==
    data[RROffset(data) + 2 * (k - 1) + 1] + 256 * data[RROffset(data) + 2 * (k - 1) + 2]
\* v (in 1/MsScale ms) is raw/1024 s
IsMsOf(v, raw) == v * 1024 = raw * 1000 * MsScale

\* C29: the intervals an accepted frame appends are the consecutive little-endian
\* unsigned 16-bit values read from byte offset 2 (flag bit 0x01 clear) or 3 (set),
\* each converted from 1/1024 s to milliseconds, in frame order and behind the
\* intervals already there, a trailing single byte being ignored; the window holds the
\* last rr_window_size of them.
C29_FrameIntervals ==
    Accepted =>
        LET data == delivered.data
            old == delivered.received_before
            all == delivered.before[1] \o SubSeq(received, Len(old) + 1, Len(received))
        IN  /\ Len(received) = Len(old) + RRCount(data)
            /\ SubSeq(received, 1, Len(old)) = old
            /\ \A k \in 1..RRCount(data) : IsMsOf(received[Len(old) + k], RawAt(data, k))
            /\ Len(rr_ms_window) = Min(Len(all), rr_window_size)
            /\ \A j \in 1..Len(rr_ms_window) :
                  rr_ms_window[j] = all[Len(all) - Len(rr_ms_window) + j]

\* a frame with a 2-byte heart rate and two different intervals was accepted when the
\* window already held intervals
C29_Witness ==
    /\ Accepted
    /\ delivered.data[1] = 17
    /\ RRCount(delivered.data) = 2
    /\ RawAt(delivered.data, 1) # RawAt(delivered.data, 2)
    /\ delivered.received_before # <<>>

\* --- run_session: the finished flag
SeesFinished == pulls' = pulls + 1 /\ audio_engine.present /\ audio_engine.finished

\* C30: the iteration that pulls a z-score when the sink has reported finished ends
\* the loop, of the live stream and of the simulated one: that z-score is not appended,
\* the controller is not called, the sink gets no parameters; and once the loop is
\* over no sample is appended and no tick runs.
C30_FinishedEndsLoop ==
    /\ [][SeesFinished =>
            /\ session_pc' = "cleanup"
            /\ exit_cause' = "finished"
            /\ samples' = samples
            /\ ticks' = ticks
            /\ current_params' = current_params
            /\ last_call' = last_call
            /\ audio_engine' = audio_engine]_vars
    /\ [][LoopOver =>
            /\ LoopOver'
            /\ samples' = samples
            /\ ticks' = ticks
            /\ pulls' = pulls
            /\ audio_engine'.params = audio_engine.params]_vars

\* a live session with two samples ended on the finished flag and went on to its end
C30_Witness ==
    /\ exit_cause = "finished"
    /\ z_source = "live"
    /\ Len(samples) = 2
    /\ pulls = 3
    /\ session_pc = "done"

\* --- run_session: completion of the sink
\* C31: whenever the sink's finished flag is true while a loop of run_session runs, the
\* session eventually leaves the loop and reaches its cleanup, the session task being
\* scheduled and the sensor free never to deliver another z-score.
C31_FinishedLeadsToCleanup ==
    (audio_engine.present /\ audio_engine.finished /\ ~LoopOver) ~> LoopOver

\* --- the controller: no state besides the parameters
ControlTick == ticks' = ticks + 1 /\ ~last_call'.is_baseline /\ last_call'.hrv_z.present
\* KI * (HRV_SETPOINT - z) * DT of the tick, in model units
StepOf(ki) ==
    Milli(ki * (HRV_SETPOINT - last_call'.hrv_z.val) * DT)
\* a parameter pinned at a boundary and pushed inwards leaves it at once, by the step
LeavesBoundary(x, y, lo, hi, step) ==
    /\ (x = lo /\ step > 0) => (y = Min(hi, lo + step) /\ y > lo)
    /\ (x = hi /\ step < 0) => (y = Max(lo, hi + step) /\ y < hi)

\* C32: nothing but the clamped parameters is carried between ticks: on a non-baseline
\* tick without FAA input, a parameter that stands on a boundary of its range and whose
\* step KI * error * DT points into the range moves off the boundary on that tick by
\* exactly that step, or to the opposite boundary if the step exceeds the range,
\* however many ticks pinned it there.
C32_NoHiddenIntegrator ==
    [][(ControlTick /\ ~last_call'.faa_z.present) =>
          /\ LeavesBoundary(current_params.tempo, current_params'.tempo,
                            TEMPO_MIN, TEMPO_MAX, StepOf(HRV_KI_TEMPO))
          /\ LeavesBoundary(current_params.pitch, current_params'.pitch,
                            PITCH_MIN, PITCH_MAX, StepOf(HRV_KI_PITCH))
          /\ LeavesBoundary(current_params.volume, current_params'.volume,
                            VOLUME_MIN, VOLUME_MAX, StepOf(HRV_KI_VOLUME))]_vars

\* fourth tick: z = -1 took the tempo, pinned at its minimum two ticks before and one
\* tick before, to 0.86, and the volume from its maximum to 67.6
C32_Witness ==
    /\ ticks = 4
    /\ last_call = Call(Some(-1), None, FALSE)
    /\ prev_params.tempo = TEMPO_MIN
    /\ prev_params.volume = VOLUME_MAX
    /\ current_params.tempo = TEMPO_MIN + Milli(10)
    /\ current_params.volume = VOLUME_MAX - Milli(400)

\* --- run_session: the baseline
\* tempo 1.0, pitch -2.0, volume 60.0
Neutral == AudioParams(PScale, -2 * PScale, 60 * PScale)
BaselineTick == IsTick /\ samples'[Len(samples')].t_rel <= BASELINE_SECONDS

\* C33: in a session, every tick with t_rel <= BASELINE_SECONDS leaves the parameters
\* and what the sink was given at exactly the neutral values, whatever the z-score,
\* and parameters that differ from neutral come from a tick with
\* t_rel > BASELINE_SECONDS.
C33_BaselineIsNeutral ==
    /\ [][BaselineTick =>
            /\ current_params' = Neutral
            /\ audio_engine.present => audio_engine'.params = Neutral]_vars
    /\ [](/\ start_params = Neutral
          /\ (current_params # Neutral \/ audio_engine.params # Neutral) =>
                \E i \in 1..Len(samples) : samples[i].t_rel > BASELINE_SECONDS)

\* two baseline ticks, the second exactly at BASELINE_SECONDS, with z = 150 and z = -1,
\* left the sink neutral
C33_Witness ==
    /\ ticks = 2
    /\ Len(samples) = 2
    /\ samples[1].z = 150
    /\ samples[2].z = -1
    /\ samples[2].t_rel = BASELINE_SECONDS
    /\ audio_engine.present
    /\ audio_engine.params = Neutral

\* --- run_session: the samples handed to compute_pre_post
\* C34: the t_rel of the samples of a session never decrease and start at the time
\* origin, 0, also after the switch to the simulated stream; so the first sample lies
\* in the pre window and the last in the post window, and compute_pre_post, when
\* run_session calls it, returns and does not divide by zero.
C34_WindowsNonEmpty ==
    /\ \A i \in 1..Len(samples) : \A j \in i..Len(samples) :
          samples[i].t_rel <= samples[j].t_rel
    /\ samples # <<>> =>
          /\ samples[1].t_rel = 0
          /\ 1 \in PreSet
          /\ Len(samples) \in PostSet
    /\ Called => summary.outcome = "returned"
    /\ session_pc = "summary" => compute_pre_post(samples).outcome = "returned"

\* a session that switched to the simulated stream, whose last sample lies past the
\* pre window and whose first lies before the post window, was summarised
C34_Witness ==
    /\ session_pc = "done"
    /\ sim_started
    /\ z_source = "sim"
    /\ samples[Len(samples)].t_rel > PRE_WINDOW_SECONDS
    /\ summary.n_pre < Len(samples)
    /\ summary.n_post < Len(samples)

\* --- run_session: a session without samples
\* C35: a session whose loop ended with no sample has stopped the sink by the time it
\* is over, ends with an error raised before compute_pre_post is called, and has
\* written no per-sample log and no summary row; a summary row or a log row exists
\* only in a session with samples.
C35_NoSamplesNoSummary ==
    /\ (SessionOver /\ samples = <<>>) =>
          /\ session_pc \in {"failed", "propagated"}
          /\ audio_engine.present => audio_engine.stops = 1
          /\ summary = NoSummary
    /\ (LoopOver /\ samples = <<>>) => (log_rows = <<>> /\ summary_rows = <<>>)
    /\ (log_rows # <<>> \/ summary_rows # <<>>) => samples # <<>>

\* the live stream returned on a failed connection before any z-score: the engine was
\* stopped and the session failed
C35_Witness ==
    /\ session_pc = "failed"
    /\ exit_cause = "stream_end"
    /\ samples = <<>>
    /\ pulls = 0
    /\ audio_engine.present
    /\ audio_engine.stops = 1

====
